---- MODULE Spec2Model ----
(***************************************************************************)
(* A model of the kraster2d triangle rasterizer (raster/triangle.rs,       *)
(* raster/triangle_setup.rs, core/frame.rs, core/texture.rs), of the kpix  *)
(* Surface it writes to (kpix/src/core.rs) and of draw_line on it         *)
(* (kpix/src/draw.rs), of the kid generational Arena (kid/src/arena.rs)    *)
(* and of the kloop fixed-timestep loop (kloop/src/fixed_loop.rs,          *)
(* kloop/src/config.rs, ktime/src/clock.rs).                               *)
(*                                                                         *)
(* Numbers.  Positions are f32 pixel coordinates in the source.  Here a    *)
(* position is an integer count of sub-pixel units, Unit units to the      *)
(* pixel, Unit a power of two.  Every position the model draws is a small  *)
(* dyadic rational, so the differences, products and sums of edge_function *)
(* are exact in f32 and the integer arithmetic of the geometry below is    *)
(* the f32 arithmetic of the source scaled by Unit (lengths) or Unit*Unit  *)
(* (edge values and areas).  From inv_area = 1.0 / area.abs() on, the      *)
(* source's arithmetic rounds; there the model computes in f32: a value is *)
(* <<m, e>> for m * 2^e with 2^23 <= |m| < 2^24 (or <<0, 0>>), and +, *, / *)
(* round to nearest, ties to even, as IEEE 754 binary32 does.  The values  *)
(* of the model stay far from the subnormal and overflow ranges.           *)
(***************************************************************************)
EXTENDS Integers, Sequences, FiniteSets, TLC

VARIABLES
    width,      \* Surface.width of the frame
    height,     \* Surface.height of the frame
    pixels,     \* Surface.pixels: row-major sequence of packed colours
    panicked,   \* TRUE once a call has panicked (the thread unwound)
    calls,      \* history: one record per call made
    texture,    \* the Texture the caller holds, once constructed
    slots,      \* Arena.slots
    free_head,  \* Arena.free_head
    arena_len,  \* Arena.len
    ids,        \* what the Arena's caller has seen: ids issued and removed
    clock,      \* FakeClock.offset, in nanoseconds
    last,       \* FixedLoop.last, as nanoseconds since the clock's base
    accumulator, \* FixedLoop.accumulator, in nanoseconds
    cfg,        \* FixedLoop.cfg
    frame_index, \* FixedLoop.frame_index
    app,        \* the App the loop drives: the counters of its calls
    advances    \* how many times the caller advanced the clock

frameVars == <<width, height, pixels>>
arenaVars == <<slots, free_head, arena_len, ids>>
loopVars == <<clock, last, accumulator, cfg, frame_index, app, advances>>
vars == <<width, height, pixels, panicked, calls, texture, slots, free_head,
          arena_len, ids,
          clock, last, accumulator, cfg, frame_index, app, advances>>

\* Option<T>
None == [some |-> FALSE, val |-> <<>>]
Some(v) == [some |-> TRUE, val |-> v]

\* The parts of the state a caller that does not use them leaves as they are
\* constructed: no texture, Arena::new(), no loop.
NoTexture == texture = None
NoArena == slots = <<>> /\ free_head = None /\ arena_len = 0 /\ ids = <<>>
NoLoop ==
    /\ clock = 0 /\ last = 0 /\ accumulator = 0 /\ cfg = <<>>
    /\ frame_index = 0 /\ app = <<>> /\ advances = 0

----------------------------------------------------------------------------
(* Bounds of the model *)

\* Unit = 2^SubBits sub-pixel units per pixel.
SubBits == 10
\* Grid positions run from -1 to GridMax half-pixels, and frames are w x h
\* with w, h in 0..MaxDim, the largest frame the grid covers.
GridMax == 3
MaxDim == (GridMax + 1) \div 2

Unit == 2 ^ SubBits
Half == Unit \div 2

----------------------------------------------------------------------------
(* kmath::num *)

\* pub const EPS: f32 = 1e-6, as the fraction 1 / EPS_DEN.
EPS_DEN == 1000000

Abs(v) == IF v < 0 THEN 0 - v ELSE v
Min2(a, b) == IF a <= b THEN a ELSE b
Max2(a, b) == IF a >= b THEN a ELSE b
Last(S) == CHOOSE k \in S : \A j \in S : j <= k

\* f32::floor and f32::ceil of a position, in whole pixels.
Floor(v) == v \div Unit
Ceil(v) == 0 - ((0 - v) \div Unit)

\* Ord::clamp for i32: panics when min > max (the caller tests that first).
Clamp(v, lo, hi) == IF v < lo THEN lo ELSE IF v > hi THEN hi ELSE v

\* What a function that may panic comes to: a panic, or its value.
Panic == [panic |-> TRUE, val |-> <<>>]
Ok(v) == [panic |-> FALSE, val |-> v]

Sgn(v) == IF v < 0 THEN 0 - 1 ELSE 1

----------------------------------------------------------------------------
(* f32 arithmetic *)

\* The number of bits of n, 0 <= n < 2^31.
BitLen(n) ==
    CHOOSE k \in 0..31 : (k = 31 \/ n < 2 ^ k) /\ (k = 0 \/ n >= 2 ^ (k - 1))

\* n shifted right by d bits, rounded to nearest, ties to even.
RoundShift(n, d) ==
    IF d = 0 THEN n
    ELSE LET q == n \div (2 ^ d)
             r == n % (2 ^ d)
             half == 2 ^ (d - 1)
         IN  IF r > half \/ (r = half /\ q % 2 = 1) THEN q + 1 ELSE q

\* n shifted right by d bits, the bits shifted out or-ed into the last bit.
ShiftRightJam(n, d) ==
    IF d >= 30 THEN (IF n # 0 THEN 1 ELSE 0)
    ELSE LET q == n \div (2 ^ d)
         IN  IF n % (2 ^ d) # 0 /\ q % 2 = 0 THEN q + 1 ELSE q

\* The f32 nearest to n * 2^e, for |n| < 2^31.
F32Norm(n, e) ==
    IF n = 0 THEN <<0, 0>>
    ELSE LET len == BitLen(Abs(n))
         IN  IF len <= 24 THEN <<n * 2 ^ (24 - len), e - (24 - len)>>
             ELSE LET q == RoundShift(Abs(n), len - 24)
                  IN  IF q = 2 ^ 24 THEN <<Sgn(n) * 2 ^ 23, e + len - 23>>
                      ELSE <<Sgn(n) * q, e + len - 24>>

\* n as f32 (usize as f32, i32 as f32, an integer literal).
F32Int(n) == F32Norm(n, 0)

\* x + y: the operands aligned with five more bits, the bits of the smaller
\* that fall below them or-ed into the last one.
F32Add(x, y) ==
    IF x[1] = 0 THEN y
    ELSE IF y[1] = 0 THEN x
    ELSE LET big == IF x[2] >= y[2] THEN x ELSE y
             small == IF x[2] >= y[2] THEN y ELSE x
             d == big[2] - small[2]
             s == ShiftRightJam(Abs(small[1]) * 32, d)
         IN  F32Norm(big[1] * 32 + Sgn(small[1]) * s, big[2] - 5)

\* x * y: the 48-bit product of the mantissas from their 12-bit halves.
F32Mul(x, y) ==
    IF x[1] = 0 \/ y[1] = 0 THEN <<0, 0>>
    ELSE LET xh == Abs(x[1]) \div 4096
             xl == Abs(x[1]) % 4096
             yh == Abs(y[1]) \div 4096
             yl == Abs(y[1]) % 4096
             mid == xh * yl + xl * yh
             low == (mid % 4096) * 4096 + xl * yl
             hi == xh * yh + mid \div 4096 + low \div (2 ^ 24)
             lo == low % (2 ^ 24)
             n == hi * 32 + lo \div (2 ^ 19)
             jam == IF lo % (2 ^ 19) # 0 /\ n % 2 = 0 THEN n + 1 ELSE n
         IN  F32Norm(Sgn(x[1]) * Sgn(y[1]) * jam, x[2] + y[2] + 19)

\* The quotient q.r / d carried k more bits by long division, a remainder
\* or-ed into the last bit.
RECURSIVE LongDiv(_, _, _, _)
LongDiv(q, r, d, k) ==
    IF k = 0 THEN IF r # 0 /\ q % 2 = 0 THEN q + 1 ELSE q
    ELSE IF 2 * r >= d THEN LongDiv(2 * q + 1, 2 * r - d, d, k - 1)
         ELSE LongDiv(2 * q, 2 * r, d, k - 1)

\* x / y, y # 0
F32Div(x, y) ==
    IF x[1] = 0 THEN <<0, 0>>
    ELSE LET ax == Abs(x[1])
             ay == Abs(y[1])
             q == LongDiv(ax \div ay, ax % ay, ay, 27)
         IN  F32Norm(Sgn(x[1]) * Sgn(y[1]) * q, x[2] - y[2] - 27)

\* x.floor() as an integer
F32Floor(x) ==
    IF x[2] >= 0 THEN x[1] * 2 ^ x[2]
    ELSE IF 0 - x[2] >= 30 THEN (IF x[1] < 0 THEN 0 - 1 ELSE 0)
    ELSE x[1] \div (2 ^ (0 - x[2]))

\* x < y
F32Lt(x, y) ==
    IF x[1] = 0 THEN y[1] > 0
    ELSE IF y[1] = 0 THEN x[1] < 0
    ELSE IF (x[1] < 0) # (y[1] < 0) THEN x[1] < 0
    ELSE IF x[1] > 0 THEN x[2] < y[2] \/ (x[2] = y[2] /\ x[1] < y[1])
    ELSE x[2] > y[2] \/ (x[2] = y[2] /\ x[1] < y[1])

\* x.clamp(lo, hi)
F32Clamp(x, lo, hi) == IF F32Lt(x, lo) THEN lo ELSE IF F32Lt(hi, x) THEN hi ELSE x

F32Zero == <<0, 0>>
F32Half == F32Norm(1, 0 - 1)
F32One == F32Int(1)

----------------------------------------------------------------------------
(* kpix::Color and kpix::Surface *)

\* A Color is <<r, g, b, a>>, each 0..255.  The packed little-endian u32 is
\* kept as its two 16-bit halves <<r + 256 g, b + 256 a>>.
rgba(r, g, b, a) == <<r, g, b, a>>
to_u32(c) == <<c[1] + 256 * c[2], c[3] + 256 * c[4]>>
from_u32(p) == <<p[1] % 256, p[1] \div 256, p[2] % 256, p[2] \div 256>>

\* Surface::new: width * height zeroed pixels.
SurfaceNew(w, h) == [i \in 1..(w * h) |-> <<0, 0>>]

\* The bounds checks of Surface::set_pixel and the index it writes (from 1
\* here); 0 when the coordinates are out of range.
PixelIndex_OffByOne(w, h, x, y) ==
    IF x < 0 \/ y < 0 THEN 0
    ELSE IF x > w \/ y >= h THEN 0
    ELSE y * w + x + 1

PixelIndex(w, h, x, y) ==
    IF x < 0 \/ y < 0 THEN 0
    ELSE IF x >= w \/ y >= h THEN 0
    ELSE y * w + x + 1

\* Surface::set_pixel: out-of-range coordinates are ignored.
set_pixel(px, w, h, x, y, color) ==
    LET idx == PixelIndex(w, h, x, y)
    IN  IF idx = 0 THEN px ELSE [px EXCEPT ![idx] = to_u32(color)]

----------------------------------------------------------------------------
(* core/texture.rs *)

\* A Vec<u32> is kept as a sequence of runs <<n, p>>, n >= 1 consecutive
\* elements equal to p.  Vec(s) is the vector with the elements of s.
Vec(s) == [i \in 1..Len(s) |-> <<1, s[i]>>]

\* The number of elements of the first k runs of v, and Vec::len.
RECURSIVE VecSum(_, _)
VecSum(v, k) == IF k = 0 THEN 0 ELSE VecSum(v, k - 1) + v[k][1]
VecLen(v) == VecSum(v, Len(v))

\* v[i], 0 <= i < v.len()
VecAt(v, i) ==
    v[CHOOSE k \in 1..Len(v) : VecSum(v, k - 1) <= i /\ i < VecSum(v, k)][2]

\* (mutant) the length of the vector is not checked.
from_rgba_le_NoLenCheck(px, w, h) ==
    IF ~(w > 0 /\ h > 0) THEN Panic
    ELSE Ok([width |-> w, height |-> h, pixels |-> px])

\* Texture::from_rgba_le: asserts width > 0, height > 0 and
\* pixels.len() == width * height.
from_rgba_le(px, w, h) ==
    IF ~(w > 0 /\ h > 0) THEN Panic
    ELSE IF VecLen(px) # w * h THEN Panic
    ELSE Ok([width |-> w, height |-> h, pixels |-> px])

\* (t.clamp(0.0, 1.0) * (n - 1.0) + 0.5).floor().clamp(0.0, n - 1.0) as usize
\* for a coordinate t and a texture of n texels along it, n the f32 nearest
\* to the usize and n - 1.0 rounded again.
TexelIndex(t, n) ==
    LET c == F32Clamp(t, F32Zero, F32One)
        nm1 == F32Add(F32Int(n), F32Int(0 - 1))
    IN  Clamp(F32Floor(F32Add(F32Mul(c, nm1), F32Half)), 0, F32Floor(nm1))

\* The index idx sample_nearest reads self.pixels at.
SampleIndex(tex, uv) ==
    TexelIndex(uv[2], tex.height) * tex.width + TexelIndex(uv[1], tex.width)

\* Texture::sample_nearest(uv), when the index is within the vector; the
\* read self.pixels[idx] panics when it is not.
sample_nearest(tex, uv) == from_u32(VecAt(tex.pixels, SampleIndex(tex, uv)))

----------------------------------------------------------------------------
(* raster/triangle_setup.rs *)

\* edge_function(a, b, p) = cross(b - a, p - a).
edge_function(a, b, p) ==
    LET abx == b[1] - a[1]
        aby == b[2] - a[2]
        apx == p[1] - a[1]
        apy == p[2] - a[2]
    IN  abx * apy - aby * apx

signed_area(v0, v1, v2) == edge_function(v0, v1, v2)

\* (mutant) the bounds are not clamped to the frame.
bbox_clamped_Unclamped(v0, v1, v2, w, h) ==
    Ok(<<Floor(Min2(Min2(v0[1], v1[1]), v2[1])),
         Floor(Min2(Min2(v0[2], v1[2]), v2[2])),
         Ceil(Max2(Max2(v0[1], v1[1]), v2[1])) - 1,
         Ceil(Max2(Max2(v0[2], v1[2]), v2[2])) - 1>>)

\* (mutant) the upper bounds are floor(max) - 1.
bbox_clamped_FloorMax(v0, v1, v2, w, h) ==
    LET min_x == Floor(Min2(Min2(v0[1], v1[1]), v2[1]))
        min_y == Floor(Min2(Min2(v0[2], v1[2]), v2[2]))
        max_x == Floor(Max2(Max2(v0[1], v1[1]), v2[1])) - 1
        max_y == Floor(Max2(Max2(v0[2], v1[2]), v2[2])) - 1
        wmax == w - 1
        hmax == h - 1
    IN  IF wmax < 0 \/ hmax < 0 THEN Panic
        ELSE Ok(<<Clamp(min_x, 0, wmax), Clamp(min_y, 0, hmax),
                  Clamp(max_x, 0, wmax), Clamp(max_y, 0, hmax)>>)

\* bbox_clamped: floor(min), ceil(max) - 1, each clamped to the frame.  The
\* first clamp is min_x.clamp(0, wmax); i32::clamp asserts min <= max and
\* panics otherwise, which is the case exactly when wmax or hmax is below 0.
bbox_clamped(v0, v1, v2, w, h) ==
    LET min_x == Floor(Min2(Min2(v0[1], v1[1]), v2[1]))
        min_y == Floor(Min2(Min2(v0[2], v1[2]), v2[2]))
        max_x == Ceil(Max2(Max2(v0[1], v1[1]), v2[1])) - 1
        max_y == Ceil(Max2(Max2(v0[2], v1[2]), v2[2])) - 1
        wmax == w - 1
        hmax == h - 1
    IN  IF wmax < 0 \/ hmax < 0 THEN Panic
        ELSE Ok(<<Clamp(min_x, 0, wmax), Clamp(min_y, 0, hmax),
                  Clamp(max_x, 0, wmax), Clamp(max_y, 0, hmax)>>)

\* is_top_left(a, b): dy < 0, or dy == 0 and dx > 0.
is_top_left_NoHorizontal(a, b) ==
    LET dy == b[2] - a[2]
    IN  dy < 0

is_top_left(a, b) ==
    LET dx == b[1] - a[1]
        dy == b[2] - a[2]
    IN  dy < 0 \/ (dy = 0 /\ dx > 0)

----------------------------------------------------------------------------
(* raster/triangle.rs *)

\* A Vertex: pos (x, y; z is never read), uv (two f32) and color (three f32).
Vertex(pos, uv, color) == [pos |-> pos, uv |-> uv, color |-> color]
\* Vertex::new: uv zero, colour white.
VertexNew(pos) == Vertex(pos, <<F32Zero, F32Zero>>, <<F32One, F32One, F32One>>)

\* (mutant) an exact comparison with zero in place of the tolerance.
IsDegenerate_ExactZero(area) == area = 0

\* area.abs() <= EPS, with area in Unit*Unit-ths.
IsDegenerate(area) == Abs(area) <= (Unit * Unit) \div EPS_DEN

\* The centre of pixel (x, y): (x + 0.5, y + 0.5).
Centre(x, y) == <<x * Unit + Half, y * Unit + Half>>

\* (mutant) every edge is inclusive.
Inside_Inclusive(tl, w) == w >= 0

\* let inside = if tl { w >= 0.0 } else { w > 0.0 }
Inside(tl, w) == IF tl THEN w >= 0 ELSE w > 0

\* The body of the scan loop for one pixel: the three sign-normalised edge
\* values, and whether the pixel passes the three inside tests.
EdgeValues(p0, p1, p2, sign, x, y) ==
    LET p == Centre(x, y)
    IN  <<sign * edge_function(p1, p2, p),
          sign * edge_function(p2, p0, p),
          sign * edge_function(p0, p1, p)>>

Covered(p0, p1, p2, sign, x, y) ==
    LET w == EdgeValues(p0, p1, p2, sign, x, y)
    IN  /\ Inside(is_top_left(p1, p2), w[1])
        /\ Inside(is_top_left(p2, p0), w[2])
        /\ Inside(is_top_left(p0, p1), w[3])

\* (mutant) the scan loops run over lo..hi, hi excluded.
Span_Exclusive(lo, hi) == Max2(hi - lo, 0)

\* The number of values of the inclusive range lo..=hi of the scan loops.
Span(lo, hi) == Max2(hi - lo + 1, 0)

\* An edge value or area, Unit*Unit-ths in the model, as the f32 it is.
F32Edge(w) == F32Norm(w, 0 - 2 * SubBits)

\* One shade(x, y, a, b, c) invocation, a = w0 * inv_area and so on; w keeps
\* the edge values the weights come from.
ShadeCall(x, y, w, inv_area) ==
    [x |-> x, y |-> y, w |-> w,
     a |-> F32Mul(F32Edge(w[1]), inv_area),
     b |-> F32Mul(F32Edge(w[2]), inv_area),
     c |-> F32Mul(F32Edge(w[3]), inv_area)]

\* The pixels the two scan loops of raster_core visit, in order: y from min_y
\* to max_y, and x from min_x to max_x within each row.
Candidates(bb) ==
    LET nx == Span(bb[1], bb[3])
        ny == Span(bb[2], bb[4])
    IN  [k \in 1..(nx * ny) |->
            <<bb[1] + ((k - 1) % nx), bb[2] + ((k - 1) \div nx)>>]

\* raster_core: the sequence of shade invocations, in scan order (y outer,
\* x inner); or a panic.
raster_core(w, h, v0, v1, v2) ==
    LET p0 == v0.pos
        p1 == v1.pos
        p2 == v2.pos
        area == signed_area(p0, p1, p2)
    IN  IF IsDegenerate(area) THEN Ok(<<>>)
        ELSE
          LET sign == IF area < 0 THEN 0 - 1 ELSE 1
              bbox == bbox_clamped(p0, p1, p2, w, h)
          IN  IF bbox.panic THEN Panic
              ELSE
                LET bb == bbox.val
                    cand == Candidates(bb)
                    hit == SelectSeq(cand,
                               LAMBDA c : Covered(p0, p1, p2, sign, c[1], c[2]))
                    inv_area == F32Div(F32One, F32Edge(Abs(area)))
                IN  Ok([k \in 1..Len(hit) |->
                       ShadeCall(hit[k][1], hit[k][2],
                                 EdgeValues(p0, p1, p2, sign, hit[k][1], hit[k][2]),
                                 inv_area)])

\* The frame.set_pixel(x, y, col) calls of a shading closure, applied in
\* order; writes is a sequence of <<x, y, col>>.  Each pixel ends with the
\* colour of the last write that addresses it.
Paint(px, w, h, writes) ==
    [i \in 1..Len(px) |->
       LET hits == {k \in 1..Len(writes) :
                      PixelIndex(w, h, writes[k][1], writes[k][2]) = i}
       IN  IF hits = {} THEN px[i]
           ELSE set_pixel(px, w, h, writes[Last(hits)][1], writes[Last(hits)][2],
                          writes[Last(hits)][3])[i]]

\* The record the history keeps of one draw call.
Call(kind, v0, v1, v2, arg, before, out) ==
    [kind |-> kind, v0 |-> v0, v1 |-> v1, v2 |-> v2, arg |-> arg,
     before |-> before, out |-> out]

\* One draw call: the shading closure, called with each shade invocation of
\* out in turn, writes the colours cols; a panic unwinds and leaves the frame
\* as it was.
Draw(kind, v0, v1, v2, arg, out, cols) ==
    /\ ~panicked
    /\ calls' = Append(calls, Call(kind, v0, v1, v2, arg, pixels, out))
    /\ IF out.panic
         THEN panicked' = TRUE /\ pixels' = pixels
         ELSE /\ panicked' = FALSE
              /\ pixels' = Paint(pixels, width, height,
                     [k \in 1..Len(out.val) |-> <<out.val[k].x, out.val[k].y, cols[k]>>])
    /\ UNCHANGED <<width, height, texture, arenaVars, loopVars>>

\* draw_triangle_solid(frame, v0, v1, v2, color)
draw_triangle_solid(v0, v1, v2, color) ==
    \E out \in {raster_core(width, height, v0, v1, v2)} :
        Draw("solid", v0, v1, v2, color, out, [k \in 1..Len(out.val) |-> color])

\* a * x0 + b * x1 + c * x2 for the values x0, x1, x2 of an attribute at the
\* three vertices.
Interp(s, x0, x1, x2) ==
    F32Add(F32Add(F32Mul(s.a, x0), F32Mul(s.b, x1)), F32Mul(s.c, x2))

\* to_u8(v) = (v * 255.0 + 0.5).floor().clamp(0.0, 255.0) as u8
to_u8(v) == Clamp(F32Floor(F32Add(F32Mul(v, F32Int(255)), F32Half)), 0, 255)

\* One channel of the vertex-colour closure: interpolate, clamp to [0, 1].
Channel(s, c0, c1, c2) == F32Clamp(Interp(s, c0, c1, c2), F32Zero, F32One)

\* The colour the closure of draw_triangle_vertex_color writes.
VertexColorShade(v0, v1, v2, s) ==
    rgba(to_u8(Channel(s, v0.color[1], v1.color[1], v2.color[1])),
         to_u8(Channel(s, v0.color[2], v1.color[2], v2.color[2])),
         to_u8(Channel(s, v0.color[3], v1.color[3], v2.color[3])),
         255)

\* draw_triangle_vertex_color(frame, v0, v1, v2)
draw_triangle_vertex_color(v0, v1, v2) ==
    \E out \in {raster_core(width, height, v0, v1, v2)} :
        Draw("vertex_color", v0, v1, v2, <<>>, out,
             [k \in 1..Len(out.val) |-> VertexColorShade(v0, v1, v2, out.val[k])])

\* The uv the closure of draw_triangle_textured samples at.
InterpUV(v0, v1, v2, s) ==
    <<Interp(s, v0.uv[1], v1.uv[1], v2.uv[1]), Interp(s, v0.uv[2], v1.uv[2], v2.uv[2])>>

\* The colour the closure of draw_triangle_textured writes.
TexturedShade(v0, v1, v2, tex, s) == sample_nearest(tex, InterpUV(v0, v1, v2, s))

\* draw_triangle_textured(frame, v0, v1, v2, tex)
draw_triangle_textured(v0, v1, v2, tex) ==
    \E out \in {raster_core(width, height, v0, v1, v2)} :
        Draw("textured", v0, v1, v2, tex, out,
             [k \in 1..Len(out.val) |-> TexturedShade(v0, v1, v2, tex, out.val[k])])

----------------------------------------------------------------------------
(* Inputs *)

Dims == 0..MaxDim
GridCoords == {k * Half : k \in (0 - 1)..GridMax}
GridPts == GridCoords \X GridCoords
\* Positions a few units from the centre of pixel (0, 0).
TinyCoords == {Half - 1, Half, Half + 2}
TinyPts == TinyCoords \X TinyCoords
Triangles == (GridPts \X GridPts \X GridPts) \cup (TinyPts \X TinyPts \X TinyPts)

\* Positions of the vertices that carry colours and texture coordinates: half
\* a pixel outside the frame, its origin, and the far corner of the largest
\* frame.
AttrCoords == {0 - Half, 0, MaxDim * Unit}
AttrPts == AttrCoords \X AttrCoords
AttrTriangles == AttrPts \X AttrPts \X AttrPts

\* The colour of tests::solid_triangle_renders_some_pixels.
SolidColor == rgba(200, 50, 50, 255)

\* Vertex colours: white, and (1.0, 0.5, 1.5 / 255.0).
VColors == {<<F32One, F32One, F32One>>,
            <<F32One, F32Half, F32Div(F32Int(3), F32Int(510))>>}

\* Texture coordinates: (0.0, 0.0) and (1.5, 0.5).
UVs == {<<F32Zero, F32Zero>>, <<F32Norm(3, 0 - 1), F32Half>>}

Red == rgba(255, 0, 0, 255)
Green == rgba(0, 255, 0, 255)
Blue == rgba(0, 0, 255, 255)
White == rgba(255, 255, 255, 255)
\* The 2x2 texture of the tests, and a texture two texels wide and four high
\* with eight distinct texels.
Tex2x2 ==
    from_rgba_le(Vec(<<to_u32(Red), to_u32(Green), to_u32(Blue), to_u32(White)>>), 2, 2).val
Tex2x4 ==
    from_rgba_le(Vec(<<to_u32(Red), to_u32(Green), to_u32(Blue), to_u32(White),
                       to_u32(rgba(1, 2, 3, 4)), to_u32(SolidColor),
                       to_u32(rgba(0, 0, 0, 255)), to_u32(rgba(9, 8, 7, 6))>>), 2, 4).val
Textures == {Tex2x2, Tex2x4}

----------------------------------------------------------------------------
(* The frame and the draw calls made on it *)

\* Frame::new(w, h)
Init ==
    /\ width \in Dims
    /\ height \in Dims
    /\ pixels = SurfaceNew(width, height)
    /\ panicked = FALSE
    /\ calls = <<>>
    /\ NoTexture /\ NoArena /\ NoLoop

DrawSolid ==
    /\ calls = <<>>
    /\ \E t \in Triangles :
         draw_triangle_solid(VertexNew(t[1]), VertexNew(t[2]), VertexNew(t[3]),
                             SolidColor)

DrawVertexColor ==
    /\ calls = <<>>
    /\ \E t \in AttrTriangles, c0 \in VColors, c1 \in VColors, c2 \in VColors :
         draw_triangle_vertex_color(Vertex(t[1], <<F32Zero, F32Zero>>, c0),
                                    Vertex(t[2], <<F32Zero, F32Zero>>, c1),
                                    Vertex(t[3], <<F32Zero, F32Zero>>, c2))

DrawTextured ==
    /\ calls = <<>>
    /\ \E t \in AttrTriangles, uv0 \in UVs, uv1 \in UVs, uv2 \in UVs, tex \in Textures :
         draw_triangle_textured(Vertex(t[1], uv0, <<F32Zero, F32Zero, F32Zero>>),
                                Vertex(t[2], uv1, <<F32Zero, F32Zero, F32Zero>>),
                                Vertex(t[3], uv2, <<F32Zero, F32Zero, F32Zero>>), tex)

Next == DrawSolid \/ DrawVertexColor \/ DrawTextured

Spec == Init /\ [][Next]_vars

----------------------------------------------------------------------------
(* A caller that draws a mesh: a triangle, then a neighbour across one of  *)
(* its edges or the same triangle in the other winding.                    *)

MeshCoords == {k * Half : k \in 0..(GridMax - 1)}
MeshPts == MeshCoords \X MeshCoords

\* The six orders in which a caller can supply three vertices.
Orders == {<<1, 2, 3>>, <<2, 3, 1>>, <<3, 1, 2>>, <<1, 3, 2>>, <<3, 2, 1>>, <<2, 1, 3>>}

NonDegenerate(p0, p1, p2) == ~IsDegenerate(signed_area(p0, p1, p2))

\* r and s lie strictly on opposite sides of the line through p and q.
OppositeSides(p, q, r, s) ==
    \/ edge_function(p, q, r) > 0 /\ edge_function(p, q, s) < 0
    \/ edge_function(p, q, r) < 0 /\ edge_function(p, q, s) > 0

InitMesh ==
    /\ width \in 1..MaxDim
    /\ height \in 1..MaxDim
    /\ pixels = SurfaceNew(width, height)
    /\ panicked = FALSE
    /\ calls = <<>>
    /\ NoTexture /\ NoArena /\ NoLoop

MeshFirst ==
    /\ calls = <<>>
    /\ \E p \in MeshPts, q \in MeshPts, r \in MeshPts :
         /\ NonDegenerate(p, q, r)
         /\ draw_triangle_solid(VertexNew(p), VertexNew(q), VertexNew(r), SolidColor)

\* The neighbour across the edge opposite vertex i of the first triangle,
\* with apex s, its vertices supplied in the order o.
MeshNeighbour ==
    /\ Len(calls) = 1
    /\ \E e \in Orders, s \in MeshPts, o \in Orders :
         LET t == <<calls[1].v0.pos, calls[1].v1.pos, calls[1].v2.pos>>
             n == <<t[e[1]], t[e[2]], s>>
         IN  /\ e[1] < e[2]
             /\ NonDegenerate(n[1], n[2], n[3])
             /\ OppositeSides(t[e[1]], t[e[2]], t[e[3]], s)
             /\ draw_triangle_solid(VertexNew(n[o[1]]), VertexNew(n[o[2]]),
                                    VertexNew(n[o[3]]), SolidColor)

\* The same triangle again with its vertices in the order (v0, v2, v1).
MeshReversed ==
    /\ Len(calls) = 1
    /\ draw_triangle_solid(calls[1].v0, calls[1].v2, calls[1].v1, SolidColor)

NextMesh == MeshFirst \/ MeshNeighbour \/ MeshReversed

SpecMesh == InitMesh /\ [][NextMesh]_vars

----------------------------------------------------------------------------
(* tests::two_triangles_make_filled_rect_no_cracks: a rectangle drawn as   *)
(* two triangles split along its diagonal, on a TileDim x TileDim frame.   *)
(* The test's rectangle runs from (TileA, TileA) to (TileB, TileB); the    *)
(* corners here range over 0..TileA and TileB..TileDim.                    *)

TileDim == 16
TileA == 2
TileB == 13

PixelPos(x, y) == <<x * Unit, y * Unit>>

InitTile ==
    /\ width = TileDim
    /\ height = TileDim
    /\ pixels = SurfaceNew(width, height)
    /\ panicked = FALSE
    /\ calls = <<>>
    /\ NoTexture /\ NoArena /\ NoLoop

\* draw_triangle_solid(a, b, cpt)
TileFirst ==
    /\ calls = <<>>
    /\ \E x0 \in 0..TileA, y0 \in 0..TileA, x1 \in TileB..TileDim, y1 \in TileB..TileDim :
         draw_triangle_solid(VertexNew(PixelPos(x0, y0)), VertexNew(PixelPos(x1, y0)),
                             VertexNew(PixelPos(x1, y1)), SolidColor)

\* draw_triangle_solid(a, cpt, d)
TileSecond ==
    /\ Len(calls) = 1
    /\ draw_triangle_solid(calls[1].v0, calls[1].v2,
                           VertexNew(<<calls[1].v0.pos[1], calls[1].v2.pos[2]>>),
                           SolidColor)

NextTile == TileFirst \/ TileSecond

SpecTile == InitTile /\ [][NextTile]_vars

----------------------------------------------------------------------------
(* What the claims speak of *)

\* The shade invocations of a call, and the pixels it passed to shade.
Shaded(c) == IF c.out.panic THEN <<>> ELSE c.out.val
Painted(c) == {<<Shaded(c)[k].x, Shaded(c)[k].y>> : k \in 1..Len(Shaded(c))}
Pos(c) == <<c.v0.pos, c.v1.pos, c.v2.pos>>
Area(c) == signed_area(c.v0.pos, c.v1.pos, c.v2.pos)
FramePixels == (0..(width - 1)) \X (0..(height - 1))

\* The pixel centre p lies on the line through a and b and strictly inside
\* the other two edges of the triangle (a, b, r).
OnEdgeInsideOthers(a, b, r, p) ==
    LET sg == IF edge_function(a, b, r) < 0 THEN 0 - 1 ELSE 1
    IN  /\ edge_function(a, b, p) = 0
        /\ sg * edge_function(b, r, p) > 0
        /\ sg * edge_function(r, a, p) > 0

\* C1: two non-degenerate triangles that share an edge and lie on opposite
\* sides of it: every pixel whose centre lies on the shared edge, inside the
\* other edges of both, is shaded by exactly one of the two draw calls,
\* whatever the vertex orders.
C1_SharedEdgeExactlyOnce ==
    Len(calls) = 2 =>
      \A i, j \in 1..3 : \A k, l \in 1..3 :
        LET t == Pos(calls[1])
            n == Pos(calls[2])
            ri == CHOOSE m \in 1..3 : m # i /\ m # j
            rk == CHOOSE m \in 1..3 : m # k /\ m # l
        IN  (/\ i # j /\ k # l
             /\ t[i] = n[k] /\ t[j] = n[l]
             /\ OppositeSides(t[i], t[j], t[ri], n[rk]))
            => \A px \in FramePixels :
                 (/\ OnEdgeInsideOthers(t[i], t[j], t[ri], Centre(px[1], px[2]))
                  /\ OnEdgeInsideOthers(t[i], t[j], n[rk], Centre(px[1], px[2])))
                 => (px \in Painted(calls[1])) # (px \in Painted(calls[2]))

\* C2: winding independence: (v0, v1, v2) and (v0, v2, v1) paint the same
\* set of pixels.
C2_WindingIndependence ==
    (/\ Len(calls) = 2
     /\ Pos(calls[2]) = <<calls[1].v0.pos, calls[1].v2.pos, calls[1].v1.pos>>)
    => Painted(calls[1]) = Painted(calls[2])


\* The pixels of the rectangle [x0, x1) x [y0, y1) the two calls tile.
TileRect ==
    LET a == calls[1].v0.pos
        c == calls[1].v2.pos
    IN  (Floor(a[1])..(Floor(c[1]) - 1)) \X (Floor(a[2])..(Floor(c[2]) - 1))

\* C3: watertight tiling: the two triangles of a rectangle [x0, x1) x
\* [y0, y1) paint exactly its pixels (121 for (2,2)..(13,13)) and no others,
\* and no pixel is painted by both calls.
C3_WatertightTiling ==
    Len(calls) = 2 =>
      /\ Painted(calls[1]) \cup Painted(calls[2]) = TileRect
      /\ Painted(calls[1]) \cap Painted(calls[2]) = {}
      /\ \A px \in FramePixels :
           pixels[px[2] * width + px[1] + 1] =
             IF px \in TileRect THEN to_u32(SolidColor) ELSE <<0, 0>>
      /\ (calls[1].v0.pos = PixelPos(TileA, TileA) /\ calls[1].v2.pos = PixelPos(TileB, TileB))
           => Cardinality(Painted(calls[1]) \cup Painted(calls[2])) = 121

C3_Witness ==
    /\ Len(calls) = 2
    /\ calls[1].v0.pos = PixelPos(TileA, TileA)
    /\ calls[1].v2.pos = PixelPos(TileB, TileB)
    /\ calls[2].v2.pos = PixelPos(TileA, TileB)
    /\ Cardinality(Painted(calls[1])) > 0
    /\ Cardinality(Painted(calls[2])) > 0
    /\ Cardinality({i \in 1..Len(pixels) : pixels[i] = to_u32(SolidColor)}) = 121

\* |area| <= EPS, for an area in Unit*Unit-ths (no area of a triangle the
\* model draws that is above 1000 units is within EPS).
WithinEps(area) == Abs(area) <= 1000 /\ Abs(area) * EPS_DEN <= Unit * Unit

\* The pixel (x, y) passes the three inside tests of the call c.
PassesInside(c, px) ==
    Covered(c.v0.pos, c.v1.pos, c.v2.pos, IF Area(c) < 0 THEN 0 - 1 ELSE 1, px[1], px[2])

\* C4: degenerate skip: a draw call of any of the three kinds on a triangle
\* with |area| <= EPS invokes no shade step and leaves every pixel unchanged.
C4_DegenerateSkip ==
    \A i \in 1..Len(calls) :
      WithinEps(Area(calls[i])) =>
        /\ ~calls[i].out.panic
        /\ Shaded(calls[i]) = <<>>
        /\ (i = Len(calls) => pixels = calls[i].before)

\* A skipped triangle that is not collinear and has the centre of pixel
\* (0, 0) pass its inside tests.
C4_Witness ==
    /\ Len(calls) = 1
    /\ width >= 1 /\ height >= 1
    /\ Area(calls[1]) # 0
    /\ WithinEps(Area(calls[1]))
    /\ PassesInside(calls[1], <<0, 0>>)
    /\ pixels = calls[1].before

\* The triangle's bounding box has no point inside [0, width) x [0, height).
OutOfView(c) ==
    LET xs == {Pos(c)[k][1] : k \in 1..3}
        ys == {Pos(c)[k][2] : k \in 1..3}
    IN  \/ \A x \in xs : x <= 0
        \/ \A x \in xs : x >= width * Unit
        \/ \A y \in ys : y <= 0
        \/ \A y \in ys : y >= height * Unit

\* C5: out-of-view skip: on a frame with width, height >= 1 a non-degenerate
\* triangle whose bounding box lies outside the frame paints nothing, and
\* every (x, y) any draw call passes to shade is inside the frame.
C5_OutOfViewSkip ==
    \A i \in 1..Len(calls) :
      (width >= 1 /\ height >= 1) =>
        /\ ~calls[i].out.panic
        /\ Painted(calls[i]) \subseteq FramePixels
        /\ (~WithinEps(Area(calls[i])) /\ OutOfView(calls[i])) =>
             /\ Shaded(calls[i]) = <<>>
             /\ (i = Len(calls) => pixels = calls[i].before)

\* A non-degenerate triangle strictly right of and below the frame.
C5_Witness ==
    /\ Len(calls) = 1
    /\ width >= 1 /\ height >= 1
    /\ ~WithinEps(Area(calls[1]))
    /\ \A k \in 1..3 : Pos(calls[1])[k][1] >= width * Unit /\ Pos(calls[1])[k][2] >= height * Unit
    /\ Shaded(calls[1]) = <<>>

\* C6: a draw call on a frame of width 0 or height 0 never fails: it
\* completes normally and shades no pixel, for every triangle.
C6_ZeroSizeNoFailure ==
    (width = 0 \/ height = 0) =>
      /\ ~panicked
      /\ \A i \in 1..Len(calls) : ~calls[i].out.panic /\ Shaded(calls[i]) = <<>>

\* C7: for a non-degenerate triangle on a frame with width, height >= 1,
\* shade is invoked exactly once for each frame pixel whose centre passes
\* the three inside tests, and for no other pixel.
C7_ShadedExactlyInside ==
    \A i \in 1..Len(calls) :
      (width >= 1 /\ height >= 1 /\ ~WithinEps(Area(calls[i]))) =>
        /\ Painted(calls[i]) = {px \in FramePixels : PassesInside(calls[i], px)}
        /\ Len(Shaded(calls[i])) = Cardinality(Painted(calls[i]))

\* A triangle that covers every pixel of a frame of more than one pixel, one
\* of them on an edge.
C7_Witness ==
    /\ Len(calls) = 1
    /\ width * height >= 2
    /\ Painted(calls[1]) = FramePixels
    /\ \E k \in 1..Len(Shaded(calls[1])) : Shaded(calls[1])[k].w[1] = 0

\* C8: single-pixel triangle: when the clamped bounding box of a
\* non-degenerate triangle is one pixel, the draw call paints that pixel iff
\* its centre passes the inside test, and changes no other pixel.
C8_SinglePixel ==
    \A i \in 1..Len(calls) :
      LET c == calls[i]
          bbox == bbox_clamped(c.v0.pos, c.v1.pos, c.v2.pos, width, height)
      IN  (/\ width >= 1 /\ height >= 1
           /\ ~WithinEps(Area(c))
           /\ bbox.val[1] = bbox.val[3] /\ bbox.val[2] = bbox.val[4])
          => LET px == <<bbox.val[1], bbox.val[2]>>
             IN  /\ Painted(c) = IF PassesInside(c, px) THEN {px} ELSE {}
                 /\ i = Len(calls) =>
                      \A q \in FramePixels :
                        IF q = px /\ PassesInside(c, px)
                          THEN c.kind = "solid" =>
                                 pixels[q[2] * width + q[1] + 1] = to_u32(c.arg)
                          ELSE pixels[q[2] * width + q[1] + 1] =
                                 c.before[q[2] * width + q[1] + 1]

\* A single-pixel bounding box on a larger frame, its pixel painted.
C8_Witness ==
    /\ Len(calls) = 1
    /\ calls[1].kind = "solid"
    /\ width = 2 /\ height = 2
    /\ ~WithinEps(Area(calls[1]))
    /\ bbox_clamped(calls[1].v0.pos, calls[1].v1.pos, calls[1].v2.pos, width, height).val
         = <<1, 0, 1, 0>>
    /\ Painted(calls[1]) = {<<1, 0>>}

----------------------------------------------------------------------------
(* Shading *)

\* A call on a fresh frame that returned.
OnFreshFrame(c) == ~c.out.panic /\ c.before = SurfaceNew(width, height)

\* The colour round(C * 255), alpha 255, of a colour C with channels in [0, 1].
Quantized(C) == rgba(to_u8(C[1]), to_u8(C[2]), to_u8(C[3]), 255)

\* The frame draw_triangle_solid leaves when it is given the vertices of the
\* call c and the colour col on a fresh frame of the same size.
SolidFrame(c, col) ==
    LET out == raster_core(width, height, VertexNew(c.v0.pos), VertexNew(c.v1.pos),
                           VertexNew(c.v2.pos))
    IN  Paint(SurfaceNew(width, height), width, height,
              [k \in 1..Len(out.val) |-> <<out.val[k].x, out.val[k].y, col>>])

\* C9: draw_triangle_vertex_color with all three vertex colours equal to C
\* leaves a fresh frame in exactly the state draw_triangle_solid leaves it in
\* with the quantized C: the same pixels painted, each round(C * 255) with
\* alpha 255.
C9_VertexColorMatchesSolid ==
    \A i \in 1..Len(calls) :
        LET c == calls[i]
        IN  (/\ c.kind = "vertex_color"
             /\ OnFreshFrame(c)
             /\ c.v0.color = c.v1.color
             /\ c.v1.color = c.v2.color)
            => pixels = SolidFrame(c, Quantized(c.v0.color))

\* C10: a textured call writes to every covered pixel exactly the texel
\* sample_nearest returns at the interpolated (u, v), unclamped and unmodified;
\* and when the three vertices carry the same uv, every painted pixel holds
\* the one texel sample_nearest(uv) and the other pixels are unchanged.
C10_TexturedWritesSample ==
    \A i \in 1..Len(calls) :
        LET c == calls[i]
        IN  (c.kind = "textured" /\ ~c.out.panic) =>
              /\ \A k \in 1..Len(Shaded(c)) :
                   pixels[PixelIndex(width, height, Shaded(c)[k].x, Shaded(c)[k].y)]
                     = to_u32(sample_nearest(c.arg,
                                  InterpUV(c.v0, c.v1, c.v2, Shaded(c)[k])))
              /\ (c.v0.uv = c.v1.uv /\ c.v1.uv = c.v2.uv) =>
                   \A x \in 0..(width - 1), y \in 0..(height - 1) :
                       pixels[PixelIndex(width, height, x, y)] =
                         IF <<x, y>> \in Painted(c)
                           THEN to_u32(sample_nearest(c.arg, c.v0.uv))
                           ELSE c.before[PixelIndex(width, height, x, y)]

----------------------------------------------------------------------------
(* A caller that constructs a Texture and samples it *)

\* The number of sample_nearest calls a behaviour makes.
MaxSamples == 2

\* Widths and heights given to from_rgba_le; f32 has 24 bits, so 2^24 + 1
\* and 2^24 + 3 are the first widths that `as f32` rounds down and up.
TexWidths == {0, 1, 2, 2 ^ 24 + 1, 2 ^ 24 + 3}
TexHeights == {0, 1, 2}

\* The pixel vectors given to from_rgba_le: up to four distinct texels, and
\* two long vectors whose last texel differs from the others.
PixelVecs ==
    {Vec(<<>>), Vec(<<to_u32(Red)>>), Vec(<<to_u32(Red), to_u32(Green)>>),
     Vec(<<to_u32(Red), to_u32(Green), to_u32(Blue)>>),
     Vec(<<to_u32(Red), to_u32(Green), to_u32(Blue), to_u32(White)>>),
     <<<<2 ^ 24, to_u32(Red)>>, <<1, to_u32(Green)>>>>,
     <<<<2 ^ 24 + 2, to_u32(Red)>>, <<1, to_u32(Green)>>>>}

\* The coordinates sampled: -1.0, 0.0, 0.5, 1.0, 1.5.
SampleCoords == {F32Int(0 - 1), F32Zero, F32Half, F32One, F32Norm(3, 0 - 1)}
SampleUVs == SampleCoords \X SampleCoords

InitTexture ==
    /\ width = 0
    /\ height = 0
    /\ pixels = SurfaceNew(width, height)
    /\ panicked = FALSE
    /\ calls = <<>>
    /\ NoTexture /\ NoArena /\ NoLoop

\* Texture::from_rgba_le(pixels, width, height)
TextureNew ==
    /\ ~panicked
    /\ ~texture.some
    /\ \E px \in PixelVecs, w \in TexWidths, h \in TexHeights :
         \E out \in {from_rgba_le(px, w, h)} :
            /\ calls' = Append(calls, [kind |-> "from_rgba_le", px |-> px, w |-> w,
                                       h |-> h, out |-> out])
            /\ panicked' = out.panic
            /\ texture' = IF out.panic THEN texture ELSE Some(out.val)
    /\ UNCHANGED <<frameVars, arenaVars, loopVars>>

\* tex.sample_nearest(uv)
SampleNearest ==
    /\ ~panicked
    /\ texture.some
    /\ Len(calls) <= MaxSamples
    /\ \E uv \in SampleUVs :
         LET t == texture.val
             idx == SampleIndex(t, uv)
             out == IF idx >= VecLen(t.pixels) THEN Panic ELSE Ok(sample_nearest(t, uv))
         IN  /\ calls' = Append(calls, [kind |-> "sample_nearest", uv |-> uv,
                                        tx |-> TexelIndex(uv[1], t.width),
                                        ty |-> TexelIndex(uv[2], t.height),
                                        out |-> out])
             /\ panicked' = out.panic
    /\ UNCHANGED <<frameVars, texture, arenaVars, loopVars>>

NextTexture == TextureNew \/ SampleNearest

SpecTexture == InitTexture /\ [][NextTexture]_vars

\* The number of quarters in clamp(t, 0, 1), for t a multiple of 1/4.
Quarters(t) == F32Floor(F32Mul(F32Clamp(t, F32Zero, F32One), F32Int(4)))

\* floor(clamp(t, 0, 1) * (n - 1) + 0.5) in exact arithmetic.
EdgeClampIndex(t, n) == (2 * Quarters(t) * (n - 1) + 4) \div 8

\* C11: sample_nearest uses edge-clamp addressing: the texel index is
\* floor(clamp(u,0,1)*(w-1)+0.5), floor(clamp(v,0,1)*(h-1)+0.5); it lies in
\* [0,w-1] x [0,h-1] and the read never goes out of bounds; u <= 0 selects
\* column 0 and u >= 1 column w-1 (likewise rows); and an out-of-range
\* coordinate returns the texel of that coordinate clamped into [0,1].
C11_EdgeClampAddressing ==
    \A i \in 1..Len(calls) :
        LET c == calls[i]
            t == texture.val
        IN  c.kind = "sample_nearest" =>
              /\ ~c.out.panic
              /\ c.tx = EdgeClampIndex(c.uv[1], t.width)
              /\ c.ty = EdgeClampIndex(c.uv[2], t.height)
              /\ c.tx \in 0..(t.width - 1) /\ c.ty \in 0..(t.height - 1)
              /\ (~F32Lt(F32Zero, c.uv[1]) => c.tx = 0)
              /\ (~F32Lt(c.uv[1], F32One) => c.tx = t.width - 1)
              /\ (~F32Lt(F32Zero, c.uv[2]) => c.ty = 0)
              /\ (~F32Lt(c.uv[2], F32One) => c.ty = t.height - 1)
              /\ c.out.val = sample_nearest(t, <<F32Clamp(c.uv[1], F32Zero, F32One),
                                                 F32Clamp(c.uv[2], F32Zero, F32One)>>)

\* Every from_rgba_le call with a zero dimension or a vector of the wrong
\* length has panicked and returned no Texture, and the Texture that exists
\* has width > 0, height > 0 and width * height pixels.
TextureWellFormed ==
    /\ \A i \in 1..Len(calls) :
         LET c == calls[i]
         IN  (/\ c.kind = "from_rgba_le"
              /\ (c.w = 0 \/ c.h = 0 \/ VecLen(c.px) # c.w * c.h))
             => c.out.panic /\ panicked /\ ~texture.some
    /\ texture.some =>
         /\ texture.val.width > 0
         /\ texture.val.height > 0
         /\ VecLen(texture.val.pixels) = texture.val.width * texture.val.height

\* C12: from_rgba_le fails at once when width = 0, height = 0 or
\* pixels.len() # width * height; every Texture that exists satisfies
\* width > 0, height > 0 and pixels.len() = width * height, and no operation
\* changes it.
C12_TextureInvariant ==
    /\ []TextureWellFormed
    /\ [][texture.some => texture' = texture]_vars

\* A vector of the wrong length for non-zero dimensions was refused.
C12_Witness ==
    /\ panicked
    /\ ~texture.some
    /\ Len(calls) = 1
    /\ calls[1].kind = "from_rgba_le"
    /\ calls[1].w > 0 /\ calls[1].h > 0
    /\ VecLen(calls[1].px) # calls[1].w * calls[1].h

\* ---------------------------------------------------------------------------
\* A caller that writes single pixels into a Surface (kpix) or, through the
\* forwarding Frame::set_pixel, into a Frame.
\* ---------------------------------------------------------------------------

\* i32 coordinates: negative, inside, on the far border, and i32::MAX.
PixCoords == {0 - 1, 2147483647} \cup (0..MaxDim)
PixColors == {Red, rgba(1, 2, 3, 4)}

InitSurface ==
    /\ width \in Dims
    /\ height \in Dims
    /\ pixels = SurfaceNew(width, height)
    /\ panicked = FALSE
    /\ calls = <<>>
    /\ NoTexture /\ NoArena /\ NoLoop

\* Surface::set_pixel; indexing self.pixels past its end panics.  Only the
\* latest call is remembered, with the buffer as it was before the call.
SetPixel ==
    /\ ~panicked
    /\ \E x \in PixCoords, y \in PixCoords, color \in PixColors :
         LET idx == PixelIndex(width, height, x, y)
             oob == idx > Len(pixels)
         IN  /\ panicked' = oob
             /\ pixels' = IF oob THEN pixels
                          ELSE set_pixel(pixels, width, height, x, y, color)
             /\ calls' = <<[kind |-> "set_pixel", x |-> x, y |-> y,
                            color |-> color, before |-> pixels]>>
    /\ UNCHANGED <<width, height, texture, arenaVars, loopVars>>

\* Surface::clear fills the whole buffer.
SurfaceClear ==
    /\ ~panicked
    /\ \E color \in PixColors :
         /\ pixels' = [i \in 1..Len(pixels) |-> to_u32(color)]
         /\ calls' = <<[kind |-> "clear", color |-> color, before |-> pixels]>>
    /\ UNCHANGED <<width, height, panicked, texture, arenaVars, loopVars>>

NextSurface == SetPixel \/ SurfaceClear

SpecSurface == InitSurface /\ [][NextSurface]_vars

LastSetPixel == Len(calls) = 1 /\ calls[1].kind = "set_pixel"

InRange(x, y) == 0 <= x /\ x < width /\ 0 <= y /\ y < height

\* C13: set_pixel never fails; with x < 0, y < 0, x >= width or y >= height
\* the buffer is left exactly as it was; with coordinates in range exactly the
\* pixel at index y * width + x is overwritten by the packed colour and every
\* other pixel keeps its value.
C13_SetPixelClipped ==
    LastSetPixel =>
        LET c == calls[1]
        IN  /\ ~panicked
            /\ Len(pixels) = Len(c.before)
            /\ IF InRange(c.x, c.y)
               THEN \A i \in 1..Len(pixels) :
                        pixels[i] = IF i = c.y * width + c.x + 1
                                    THEN to_u32(c.color)
                                    ELSE c.before[i]
               ELSE pixels = c.before

\* An ignored write on the far border of a frame that already holds a written
\* pixel.
C13_Witness ==
    /\ LastSetPixel
    /\ calls[1].x = width
    /\ InRange(0, calls[1].y)
    /\ width > 0
    /\ \E i \in 1..Len(pixels) : pixels[i] = to_u32(Red)
    /\ \E i \in 1..Len(pixels) : pixels[i] = <<0, 0>>

\* ---------------------------------------------------------------------------
\* kid::Arena, a generational arena (src/kid/src/arena.rs).
\* ---------------------------------------------------------------------------

\* Slot.generation and EntityId.generation are u32 and advance with
\* wrapping_add(1).  The model keeps GenBits bits of them, so that the
\* wrap-around of the counter is within reach of the search.
GenBits == 1
GenMod == 2 ^ GenBits

\* Caps on the arena's growth and on the number of inserts.
MaxSlots == 2
MaxInserts == 4

EntityId(i, g) == [index |-> i, generation |-> g]

Slot(g, v, n) == [generation |-> g, value |-> v, next_free |-> n]

Arena(sl, fh, n) == [slots |-> sl, free_head |-> fh, len |-> n]

\* Arena::insert: pops the head of the free list, or pushes a new slot.
\* Indexing self.slots[idx] past the end panics.
arena_insert_AlwaysAppend(a, value) ==
    Ok([arena |-> Arena(Append(a.slots, Slot(0, Some(value), None)),
                        a.free_head, a.len + 1),
        id |-> EntityId(Len(a.slots), 0)])

arena_insert(a, value) ==
    IF a.free_head.some
    THEN LET head == a.free_head.val
         IN  IF head >= Len(a.slots) THEN Panic
             ELSE LET slot == a.slots[head + 1]
                  IN  Ok([arena |-> Arena(
                              [a.slots EXCEPT ![head + 1] =
                                  Slot(slot.generation, Some(value), None)],
                              slot.next_free,
                              a.len + 1),
                          id |-> EntityId(head, slot.generation)])
    ELSE Ok([arena |-> Arena(Append(a.slots, Slot(0, Some(value), None)),
                             a.free_head, a.len + 1),
             id |-> EntityId(Len(a.slots), 0)])

\* Arena::get (get_mut reads the same way).
arena_get_NoGenCheck(a, id) ==
    IF id.index >= Len(a.slots) THEN None
    ELSE a.slots[id.index + 1].value

arena_get(a, id) ==
    IF id.index >= Len(a.slots) THEN None
    ELSE LET slot == a.slots[id.index + 1]
         IN  IF slot.generation = id.generation THEN slot.value ELSE None

\* Arena::get_mut followed by an assignment through the reference.
arena_set(a, id, value) ==
    IF arena_get(a, id).some
    THEN Arena([a.slots EXCEPT ![id.index + 1].value = Some(value)],
               a.free_head, a.len)
    ELSE a

\* Arena::remove: the arena after the call and the value returned.
arena_remove_KeepLen(a, id) ==
    IF id.index >= Len(a.slots) THEN [arena |-> a, out |-> None]
    ELSE LET slot == a.slots[id.index + 1]
         IN  IF slot.generation # id.generation \/ ~slot.value.some
             THEN [arena |-> a, out |-> None]
             ELSE [arena |-> Arena(
                       [a.slots EXCEPT ![id.index + 1] =
                           Slot((slot.generation + 1) % GenMod, None,
                                a.free_head)],
                       Some(id.index),
                       a.len),
                   out |-> slot.value]

arena_remove(a, id) ==
    IF id.index >= Len(a.slots) THEN [arena |-> a, out |-> None]
    ELSE LET slot == a.slots[id.index + 1]
         IN  IF slot.generation # id.generation \/ ~slot.value.some
             THEN [arena |-> a, out |-> None]
             ELSE [arena |-> Arena(
                       [a.slots EXCEPT ![id.index + 1] =
                           Slot((slot.generation + 1) % GenMod, None,
                                a.free_head)],
                       Some(id.index),
                       a.len - 1),
                   out |-> slot.value]

arena_contains(a, id) == arena_get(a, id).some

arena_is_empty(a) == a.len = 0

\* Arena::iter: the occupied slots in index order, each with its id.
RECURSIVE IterFrom(_, _)
IterFrom(sl, k) ==
    IF k = 0 THEN <<>>
    ELSE IF sl[k].value.some
         THEN Append(IterFrom(sl, k - 1),
                     [id |-> EntityId(k - 1, sl[k].generation),
                      value |-> sl[k].value.val])
         ELSE IterFrom(sl, k - 1)

arena_iter(a) == IterFrom(a.slots, Len(a.slots))

\* The arena held in the state.
TheArena == Arena(slots, free_head, arena_len)

Values == {"a", "b"}

\* EntityId has public fields: a caller can present any index and generation.
IdInputs == {EntityId(i, g) : i \in 0..MaxSlots, g \in 0..(GenMod - 1)}

\* What the caller has seen so far: the ids whose remove returned Some, those
\* of them whose slot is still vacant (oldest first), and how many inserts and
\* removes succeeded.
NoHistory == [removed |-> {}, vacated |-> <<>>, inserts |-> 0, removes |-> 0]

SetArena(a) ==
    /\ slots' = a.slots
    /\ free_head' = a.free_head
    /\ arena_len' = a.len

InitArena ==
    /\ width = 0 /\ height = 0 /\ pixels = <<>>
    /\ panicked = FALSE
    /\ calls = <<>>
    /\ NoTexture /\ NoLoop
    /\ slots = <<>> /\ free_head = None /\ arena_len = 0
    /\ ids = NoHistory

ArenaInsert ==
    /\ ~panicked
    /\ ids.inserts < MaxInserts
    /\ \E value \in Values :
         LET r == arena_insert(TheArena, value)
         IN  IF r.panic
             THEN /\ panicked' = TRUE
                  /\ calls' = <<[kind |-> "insert", value |-> value,
                                 before |-> TheArena, seen |-> ids]>>
                  /\ UNCHANGED arenaVars
             ELSE /\ Len(r.val.arena.slots) <= MaxSlots
                  /\ SetArena(r.val.arena)
                  /\ ids' = [ids EXCEPT
                                !.inserts = @ + 1,
                                !.vacated = SelectSeq(@,
                                    LAMBDA v : v.index # r.val.id.index)]
                  /\ calls' = <<[kind |-> "insert", value |-> value,
                                 before |-> TheArena, seen |-> ids,
                                 out |-> r.val.id]>>
                  /\ UNCHANGED panicked
    /\ UNCHANGED <<frameVars, texture, loopVars>>

ArenaGet ==
    /\ ~panicked
    /\ \E id \in IdInputs :
         calls' = <<[kind |-> "get", id |-> id, before |-> TheArena,
                     seen |-> ids, out |-> arena_get(TheArena, id)]>>
    /\ UNCHANGED <<frameVars, panicked, texture, arenaVars, loopVars>>

ArenaGetMut ==
    /\ ~panicked
    /\ \E id \in IdInputs, value \in Values :
         /\ SetArena(arena_set(TheArena, id, value))
         /\ calls' = <<[kind |-> "get_mut", id |-> id, value |-> value,
                        before |-> TheArena, seen |-> ids,
                        out |-> arena_get(TheArena, id)]>>
    /\ UNCHANGED <<frameVars, panicked, texture, ids, loopVars>>

ArenaRemove ==
    /\ ~panicked
    /\ \E id \in IdInputs :
         LET r == arena_remove(TheArena, id)
         IN  /\ SetArena(r.arena)
             /\ ids' = IF r.out.some
                       THEN [ids EXCEPT !.removes = @ + 1,
                                        !.removed = @ \cup {id},
                                        !.vacated = Append(@, id)]
                       ELSE ids
             /\ calls' = <<[kind |-> "remove", id |-> id, before |-> TheArena,
                            seen |-> ids, out |-> r.out]>>
    /\ UNCHANGED <<frameVars, panicked, texture, loopVars>>

NextArena == ArenaInsert \/ ArenaGet \/ ArenaGetMut \/ ArenaRemove

SpecArena == InitArena /\ [][NextArena]_vars

LastArenaCall(kind) == Len(calls) = 1 /\ calls[1].kind = kind

\* C14: once remove(id) has returned Some, whatever inserts and removes
\* follow, get(id) and get_mut(id) return None, contains(id) is false and
\* remove(id) returns None.
C14_StaleIdSafety ==
    \A id \in ids.removed :
        /\ ~arena_get(TheArena, id).some
        /\ ~arena_contains(TheArena, id)
        /\ ~arena_remove(TheArena, id).out.some

Vacant(a) == {k \in 1..Len(a.slots) : ~a.slots[k].value.some}

\* C15: when a slot is vacant, insert returns the index of the most recently
\* removed slot with a generation other than that of the id removed from it,
\* and the number of slots stays the same; when none is vacant it appends a
\* slot and returns (previous slot count, 0).
C15_IndexRecycling ==
    LastArenaCall("insert") =>
        LET c == calls[1]
            n == Len(c.seen.vacated)
        IN  /\ ~panicked
            /\ IF Vacant(c.before) # {}
               THEN /\ n > 0
                    /\ c.out.index = c.seen.vacated[n].index
                    /\ c.out.generation # c.seen.vacated[n].generation
                    /\ Len(slots) = Len(c.before.slots)
               ELSE /\ c.out = EntityId(Len(c.before.slots), 0)
                    /\ Len(slots) = Len(c.before.slots) + 1

\* Two slots were vacant and the insert took the lower one, removed last.
C15_Witness ==
    /\ LastArenaCall("insert")
    /\ Len(calls[1].seen.vacated) = 2
    /\ calls[1].out.index = 0
    /\ calls[1].out.generation > 0
    /\ Len(slots) = 2

Occupied == {k \in 1..Len(slots) : slots[k].value.some}

\* C16: len() is the number of occupied slots, the number of successful
\* inserts minus that of successful removes, and the number of items of
\* iter(); is_empty() holds iff it is 0; iter() yields exactly the ids for
\* which contains is true, each once.
C16_LenCountsOccupied ==
    LET it == arena_iter(TheArena)
    IN  /\ arena_len = Cardinality(Occupied)
        /\ arena_len = ids.inserts - ids.removes
        /\ arena_len = Len(it)
        /\ arena_is_empty(TheArena) <=> Cardinality(Occupied) = 0
        /\ \A id \in IdInputs :
               arena_contains(TheArena, id) <=>
                   Cardinality({k \in 1..Len(it) : it[k].id = id}) = 1
        /\ \A k \in 1..Len(it) :
               /\ arena_contains(TheArena, it[k].id)
               /\ \A j \in 1..Len(it) : it[j].id = it[k].id => j = k

\* One of two slots is occupied after several removes.
C16_Witness ==
    /\ Len(slots) = 2
    /\ arena_len = 1
    /\ ids.removes >= 2
    /\ ~slots[1].value.some

OptEq(x, y) == x.some = y.some /\ (x.some => x.val = y.val)

SlotEq(x, y) ==
    /\ x.generation = y.generation
    /\ OptEq(x.value, y.value)
    /\ OptEq(x.next_free, y.next_free)

ArenaEq(a, b) ==
    /\ Len(a.slots) = Len(b.slots)
    /\ \A k \in 1..Len(a.slots) : SlotEq(a.slots[k], b.slots[k])
    /\ OptEq(a.free_head, b.free_head)
    /\ a.len = b.len

Invalid(a, id) ==
    \/ id.index >= Len(a.slots)
    \/ a.slots[id.index + 1].generation # id.generation
    \/ ~a.slots[id.index + 1].value.some

\* C17: remove and get with an id whose index is out of range, whose
\* generation differs from the slot's or whose slot is vacant return None, and
\* such a remove leaves len, every slot and the free list as they were.
C17_FailedLookupNoEffect ==
    (LastArenaCall("get") \/ LastArenaCall("remove")) =>
        LET c == calls[1]
        IN  Invalid(c.before, c.id) =>
                /\ ~c.out.some
                /\ ~panicked
                /\ c.kind = "remove" => ArenaEq(TheArena, c.before)

\* A remove refused for its generation alone, on an occupied slot, while the
\* free list is not empty.
C17_Witness ==
    /\ LastArenaCall("remove")
    /\ calls[1].id.index < Len(slots)
    /\ slots[calls[1].id.index + 1].value.some
    /\ slots[calls[1].id.index + 1].generation # calls[1].id.generation
    /\ ~calls[1].out.some
    /\ free_head.some

\* ---------------------------------------------------------------------------
\* kloop::FixedLoop driven by a ktime::FakeClock (src/kloop/src/fixed_loop.rs,
\* src/kloop/src/config.rs, src/ktime/src/clock.rs).  Durations and Instants
\* are whole nanoseconds; an Instant is counted from the clock's base.
\* ---------------------------------------------------------------------------

\* Caps on the number of ticks and of clock advances of one run.
MaxTicks == 3
MaxAdvances == 3

SecNanos == 10 ^ 9

\* Duration::from_millis
from_millis(ms) == ms * 10 ^ 6

\* LoopConfig::from_hz: fixed_dt is 1 / hz seconds to the nearest nanosecond.
from_hz(fixed_hz) ==
    LET hz == IF fixed_hz = 0 THEN 60 ELSE fixed_hz
        q == SecNanos \div hz
        r == SecNanos % hz
    IN  [fixed_hz |-> hz,
         fixed_dt |-> IF 2 * r > hz \/ (2 * r = hz /\ q % 2 = 1)
                      THEN q + 1 ELSE q,
         max_frame_dt |-> from_millis(250),
         max_updates_per_frame |-> 10]

\* LoopConfig::with_limits
with_limits(c, max_frame_dt, max_updates_per_frame) ==
    [c EXCEPT !.max_frame_dt = max_frame_dt,
              !.max_updates_per_frame = max_updates_per_frame]

\* The f32 nearest to n / d, for 0 <= n and 0 < d < 2^30: the quotient is
\* carried to at least 27 significant bits before it is rounded.
RatioF32(n, d) ==
    IF n = 0 THEN F32Zero
    ELSE LET k == Max2(0, 27 + BitLen(d) - BitLen(n))
         IN  F32Norm(LongDiv(n \div d, n % d, d, k), 0 - k)

\* The literal 0.999_999 as f32.
AlphaMax == RatioF32(999999, 1000000)

\* tick, lines 36-42: the time since the last tick, at most max_frame_dt.
FrameDt_Unclamped(now, l, c) == IF now >= l THEN now - l ELSE 0

FrameDt(now, l, c) ==
    LET d == IF now >= l THEN now - l ELSE 0
    IN  IF d > c.max_frame_dt THEN c.max_frame_dt ELSE d

\* tick, lines 45-50: the update loop; trace lists the calls made to the App.
RECURSIVE RunUpdates_CapInclusive(_, _, _, _)
RunUpdates_CapInclusive(acc, updates, trace, c) ==
    IF acc >= c.fixed_dt /\ updates <= c.max_updates_per_frame
    THEN RunUpdates_CapInclusive(acc - c.fixed_dt, updates + 1,
                    Append(trace, <<"update", c.fixed_dt>>), c)
    ELSE [accumulator |-> acc, updates |-> updates, trace |-> trace]

RECURSIVE RunUpdates(_, _, _, _)
RunUpdates(acc, updates, trace, c) ==
    IF acc >= c.fixed_dt /\ updates < c.max_updates_per_frame
    THEN RunUpdates(acc - c.fixed_dt, updates + 1,
                    Append(trace, <<"update", c.fixed_dt>>), c)
    ELSE [accumulator |-> acc, updates |-> updates, trace |-> trace]

\* tick, lines 57-64: the interpolation factor handed to render.
TickAlpha_Unclamped(acc, c) ==
    IF c.fixed_dt = 0 THEN F32Zero ELSE RatioF32(acc, c.fixed_dt)

TickAlpha(acc, c) ==
    IF c.fixed_dt = 0 THEN F32Zero
    ELSE F32Clamp(RatioF32(acc, c.fixed_dt), F32Zero, AlphaMax)

\* FixedLoop::tick as a function of the clock reading and the loop's fields.
tick(now, l, acc, c) ==
    LET frame_dt == FrameDt(now, l, c)
        run == RunUpdates(acc + frame_dt, 0, <<>>, c)
        left == IF run.updates >= c.max_updates_per_frame
                THEN 0 ELSE run.accumulator
        alpha == TickAlpha(left, c)
    IN  [last |-> now,
         frame_dt |-> frame_dt,
         accumulator |-> left,
         trace |-> Append(run.trace, <<"render", alpha>>),
         out |-> [updates |-> run.updates, alpha |-> alpha]]

\* The App of the crate's tests: it counts its calls.
CounterAppNew == [updates |-> 0, renders |-> 0, last_alpha |-> F32Zero]

AppCall(a, call) ==
    IF call[1] = "update" THEN [a EXCEPT !.updates = @ + 1]
    ELSE [a EXCEPT !.renders = @ + 1, !.last_alpha = call[2]]

RECURSIVE AppCalls(_, _, _)
AppCalls(a, trace, k) ==
    IF k = 0 THEN a ELSE AppCall(AppCalls(a, trace, k - 1), trace[k])

Limits == {<<from_millis(0), 3>>, <<from_millis(50), 0>>,
           <<from_millis(50), 1>>, <<from_millis(50), 3>>}

Hertz == {0, 20, 2147483647}

Configs ==
    {from_hz(hz) : hz \in Hertz}
        \cup {with_limits(from_hz(hz), lim[1], lim[2]) :
                  hz \in Hertz, lim \in Limits}

Advances == {1, 16666666, 16666667, 49999999, 500000000}

\* FixedLoop::new(FakeClock::default(), cfg) and CounterApp::new().
InitLoop ==
    /\ width = 0 /\ height = 0 /\ pixels = <<>>
    /\ panicked = FALSE
    /\ calls = <<>>
    /\ NoTexture /\ NoArena
    /\ cfg \in Configs
    /\ clock = 0
    /\ last = clock
    /\ accumulator = 0
    /\ frame_index = 0
    /\ app = CounterAppNew
    /\ advances = 0

\* FakeClock::advance
Advance ==
    /\ advances < MaxAdvances
    /\ \E dt \in Advances : clock' = clock + dt
    /\ advances' = advances + 1
    /\ UNCHANGED <<frameVars, panicked, calls, texture, arenaVars,
                   last, accumulator, cfg, frame_index, app>>

\* FixedLoop::tick; the record keeps the fields as they were before the call.
Tick ==
    /\ frame_index < MaxTicks
    /\ \E r \in {tick(clock, last, accumulator, cfg)} :
         /\ last' = r.last
         /\ accumulator' = r.accumulator
         /\ app' = AppCalls(app, r.trace, Len(r.trace))
         /\ frame_index' = frame_index + 1
         /\ calls' = <<[kind |-> "tick", now |-> clock, last |-> last,
                        accumulator |-> accumulator,
                        frame_index |-> frame_index, app |-> app,
                        frame_dt |-> r.frame_dt, trace |-> r.trace,
                        out |-> r.out]>>
    /\ UNCHANGED <<frameVars, panicked, texture, arenaVars, clock, cfg,
                   advances>>

\* FixedLoop::run_steps: n times app.update(fixed_dt) and frame_index += 1.
\* It yields the calls made to the App and the new frame_index.
RECURSIVE run_steps_OneFrame(_, _, _)
run_steps_OneFrame(fi, c, n) ==
    IF n = 0 THEN [trace |-> <<>>, frame_index |-> fi]
    ELSE LET r == run_steps_OneFrame(fi, c, n - 1)
         IN  [trace |-> Append(r.trace, <<"update", c.fixed_dt>>),
              frame_index |-> fi + 1]

RECURSIVE run_steps(_, _, _)
run_steps(fi, c, n) ==
    IF n = 0 THEN [trace |-> <<>>, frame_index |-> fi]
    ELSE LET r == run_steps(fi, c, n - 1)
         IN  [trace |-> Append(r.trace, <<"update", c.fixed_dt>>),
              frame_index |-> r.frame_index + 1]

StepCounts == 0..2

\* FixedLoop::run_steps; the record keeps the fields as they were before the
\* call.
RunSteps ==
    /\ \E n \in StepCounts :
         /\ frame_index + n <= MaxTicks
         /\ \E r \in {run_steps(frame_index, cfg, n)} :
              /\ app' = AppCalls(app, r.trace, Len(r.trace))
              /\ frame_index' = r.frame_index
              /\ calls' = <<[kind |-> "run_steps", n |-> n, last |-> last,
                             accumulator |-> accumulator,
                             frame_index |-> frame_index, app |-> app,
                             trace |-> r.trace]>>
    /\ UNCHANGED <<frameVars, panicked, texture, arenaVars, clock, last,
                   accumulator, cfg, advances>>

NextLoop == Advance \/ Tick \/ RunSteps

SpecLoop == InitLoop /\ [][NextLoop]_vars

LastTick == Len(calls) = 1 /\ calls[1].kind = "tick"

\* C18: a tick calls update at most max_updates_per_frame times and then
\* render exactly once, after all its updates; TickResult.updates is the
\* number of update calls made and frame_index grows by exactly 1.
C18_UpdatesThenOneRender ==
    LastTick =>
        LET c == calls[1]
            n == Len(c.trace)
        IN  /\ n >= 1
            /\ c.trace[n][1] = "render"
            /\ \A k \in 1..(n - 1) : c.trace[k][1] = "update"
            /\ n - 1 <= cfg.max_updates_per_frame
            /\ c.out.updates = n - 1
            /\ app.updates = c.app.updates + c.out.updates
            /\ app.renders = c.app.renders + 1
            /\ frame_index = c.frame_index + 1

\* A tick that stopped at the cap of three updates and dropped the time left.
C18_Witness ==
    /\ LastTick
    /\ calls[1].out.updates = 3
    /\ cfg.max_updates_per_frame = 3
    /\ cfg.fixed_dt > 0
    /\ calls[1].accumulator + calls[1].frame_dt > 3 * cfg.fixed_dt
    /\ accumulator = 0
    /\ calls[1].frame_index > 0

\* C19: after every tick 0 <= alpha < 1, and when fixed_dt > 0 the
\* accumulator left by the tick is strictly less than fixed_dt.
C19_AlphaInUnitInterval ==
    LastTick =>
        /\ ~F32Lt(calls[1].out.alpha, F32Zero)
        /\ F32Lt(calls[1].out.alpha, F32One)
        /\ app.last_alpha = calls[1].out.alpha
        /\ cfg.fixed_dt > 0 => accumulator < cfg.fixed_dt

\* The accumulator is one nanosecond short of a step: the quotient rounds to
\* 1.0 in f32.
C19_Witness ==
    /\ LastTick
    /\ cfg.fixed_dt > 0
    /\ accumulator = cfg.fixed_dt - 1
    /\ RatioF32(accumulator, cfg.fixed_dt) = F32One
    /\ calls[1].out.alpha = AlphaMax

\* C20: in a tick with fewer than max_updates_per_frame updates,
\* updates * fixed_dt + accumulator after = accumulator before +
\* min(now - last, max_frame_dt): the tick runs floor of that sum over
\* fixed_dt updates and keeps the remainder; and the time a tick adds to the
\* accumulator never exceeds max_frame_dt.
C20_FixedStepAccounting ==
    LastTick =>
        LET c == calls[1]
            added == Min2(c.now - c.last, cfg.max_frame_dt)
        IN  /\ c.frame_dt <= cfg.max_frame_dt
            /\ c.out.updates < cfg.max_updates_per_frame =>
                   /\ c.out.updates * cfg.fixed_dt + accumulator
                          = c.accumulator + added
                   /\ cfg.fixed_dt > 0
                   /\ c.out.updates = (c.accumulator + added) \div cfg.fixed_dt
                   /\ accumulator = (c.accumulator + added) % cfg.fixed_dt

\* A tick whose frame time was clamped, that ran an update without reaching
\* its cap and carried a remainder on top of one carried in.
C20_Witness ==
    /\ LastTick
    /\ calls[1].now - calls[1].last > cfg.max_frame_dt
    /\ calls[1].out.updates >= 1
    /\ calls[1].out.updates < cfg.max_updates_per_frame
    /\ calls[1].accumulator > 0
    /\ accumulator > 0

LastRunSteps == Len(calls) = 1 /\ calls[1].kind = "run_steps"

\* C21: run_steps(app, n) calls app.update exactly n times with dt = fixed_dt,
\* never calls app.render, increases frame_index by exactly n and leaves
\* accumulator and last unchanged, whatever calls preceded it.
C21_RunStepsExactUpdates ==
    LastRunSteps =>
        LET c == calls[1]
        IN  /\ Len(c.trace) = c.n
            /\ \A k \in 1..Len(c.trace) : c.trace[k] = <<"update", cfg.fixed_dt>>
            /\ app.updates = c.app.updates + c.n
            /\ app.renders = c.app.renders
            /\ app.last_alpha = c.app.last_alpha
            /\ frame_index = c.frame_index + c.n
            /\ accumulator = c.accumulator
            /\ last = c.last

\* Two steps run after a tick that left time in the accumulator.
C21_Witness ==
    /\ LastRunSteps
    /\ calls[1].n = 2
    /\ calls[1].app.renders = 1
    /\ accumulator > 0
    /\ last > 0

\* ---------------------------------------------------------------------------
\* kpix::draw::draw_line (src/kpix/src/draw.rs) on a Surface.
\* ---------------------------------------------------------------------------

\* Surfaces are up to LineMax pixels wide and high; endpoints lie on them or
\* one pixel outside.
LineMax == 3
LineDims == 0..LineMax
LineCoords == (0 - 1)..LineMax

\* The loop of draw_line from its current point (x0, y0) and error term.
RECURSIVE LineLoop(_, _, _, _, _, _, _, _, _)
LineLoop(px, w, h, x0, y0, err, to, step, color) ==
    LET painted == set_pixel(px, w, h, x0, y0, color)
    IN  IF x0 = to.x1 /\ y0 = to.y1 THEN painted
        ELSE LET e2 == 2 * err
                 movex == e2 >= step.dy
                 err1 == IF movex THEN err + step.dy ELSE err
                 nx == IF movex THEN x0 + step.sx ELSE x0
                 movey == e2 <= step.dx
                 err2 == IF movey THEN err1 + step.dx ELSE err1
                 ny == IF movey THEN y0 + step.sy ELSE y0
             IN  LineLoop(painted, w, h, nx, ny, err2, to, step, color)

\* draw_line: Bresenham's algorithm, endpoints included, clipped by set_pixel.
draw_line(px, w, h, x0, y0, x1, y1, color) ==
    LET dx == Abs(x1 - x0)
        sx == IF x0 < x1 THEN 1 ELSE 0 - 1
        dy == 0 - Abs(y1 - y0)
        sy == IF y0 < y1 THEN 1 ELSE 0 - 1
    IN  LineLoop(px, w, h, x0, y0, dx + dy, [x1 |-> x1, y1 |-> y1],
                 [dx |-> dx, sx |-> sx, dy |-> dy, sy |-> sy], color)

InitLine ==
    /\ width \in LineDims
    /\ height \in LineDims
    /\ pixels = SurfaceNew(width, height)
    /\ panicked = FALSE
    /\ calls = <<>>
    /\ NoTexture /\ NoArena /\ NoLoop

\* One line is drawn on a new or a cleared surface.
DrawLine ==
    /\ ~panicked
    /\ IF Len(calls) = 0 THEN TRUE ELSE calls[1].kind = "clear"
    /\ \E x0 \in LineCoords, y0 \in LineCoords,
          x1 \in LineCoords, y1 \in LineCoords, color \in PixColors :
         /\ pixels' = draw_line(pixels, width, height, x0, y0, x1, y1, color)
         /\ calls' = <<[kind |-> "draw_line", x0 |-> x0, y0 |-> y0,
                        x1 |-> x1, y1 |-> y1, color |-> color,
                        before |-> pixels]>>
    /\ UNCHANGED <<width, height, panicked, texture, arenaVars, loopVars>>

NextLine == DrawLine \/ SurfaceClear

SpecLine == InitLine /\ [][NextLine]_vars

LastLine == Len(calls) = 1 /\ calls[1].kind = "draw_line"

\* C22: a line drawn from (x0,y0) to (x1,y1) and the line drawn from (x1,y1)
\* to (x0,y0) with the same colour on equal surfaces give identical pixel
\* buffers.
C22_LineDirectionSymmetry ==
    LastLine =>
        LET c == calls[1]
        IN  pixels = draw_line(c.before, width, height,
                               c.x1, c.y1, c.x0, c.y0, c.color)

\* ---------------------------------------------------------------------------
\* The bounding box and the weights of the triangle rasteriser.
\* ---------------------------------------------------------------------------

\* C23: for a non-degenerate triangle that lies fully outside a buffer with
\* width, height >= 1, bbox_clamped returns a collapsed range (min_x > max_x
\* or min_y > max_y) and raster_core visits no candidate pixel.
C23_OutsideRangeCollapses ==
    \A i \in 1..Len(calls) :
      (width >= 1 /\ height >= 1 /\ ~WithinEps(Area(calls[i]))
          /\ OutOfView(calls[i])) =>
        LET p == Pos(calls[i])
            bbox == bbox_clamped(p[1], p[2], p[3], width, height)
        IN  /\ ~bbox.panic
            /\ bbox.val[1] > bbox.val[3] \/ bbox.val[2] > bbox.val[4]
            /\ Len(Candidates(bbox.val)) = 0

\* A caller of bbox_clamped with any three points of the grid, degenerate
\* triples included.
InitBBox ==
    /\ width \in Dims
    /\ height \in Dims
    /\ pixels = SurfaceNew(width, height)
    /\ panicked = FALSE
    /\ calls = <<>>
    /\ NoTexture /\ NoArena /\ NoLoop

\* One call per caller.
BBoxClamped ==
    /\ ~panicked
    /\ Len(calls) = 0
    /\ \E v0 \in GridPts, v1 \in GridPts, v2 \in GridPts :
         \E out \in {bbox_clamped(v0, v1, v2, width, height)} :
           /\ panicked' = out.panic
           /\ calls' = <<[kind |-> "bbox_clamped", v0 |-> v0, v1 |-> v1,
                          v2 |-> v2, out |-> out]>>
    /\ UNCHANGED <<frameVars, texture, arenaVars, loopVars>>

SpecBBox == InitBBox /\ [][BBoxClamped]_vars

LastBBox == Len(calls) = 1 /\ calls[1].kind = "bbox_clamped"

\* C24: for every three points and width, height >= 1 the result of
\* bbox_clamped satisfies 0 <= min_x <= max_x < width and
\* 0 <= min_y <= max_y < height, the unclamped bounds being floor(min
\* coordinate) and ceil(max coordinate) - 1.
C24_BBoxClampedAndOrdered ==
    (LastBBox /\ width >= 1 /\ height >= 1) =>
        LET c == calls[1]
            xs == {c.v0[1], c.v1[1], c.v2[1]}
            ys == {c.v0[2], c.v1[2], c.v2[2]}
            lo_x == Floor(CHOOSE x \in xs : \A z \in xs : x <= z)
            lo_y == Floor(CHOOSE y \in ys : \A z \in ys : y <= z)
            hi_x == Ceil(CHOOSE x \in xs : \A z \in xs : x >= z) - 1
            hi_y == Ceil(CHOOSE y \in ys : \A z \in ys : y >= z) - 1
        IN  /\ ~c.out.panic
            /\ c.out.val = <<Clamp(lo_x, 0, width - 1), Clamp(lo_y, 0, height - 1),
                             Clamp(hi_x, 0, width - 1), Clamp(hi_y, 0, height - 1)>>
            /\ 0 <= c.out.val[1] /\ c.out.val[1] <= c.out.val[3]
            /\ c.out.val[3] < width
            /\ 0 <= c.out.val[2] /\ c.out.val[2] <= c.out.val[4]
            /\ c.out.val[4] < height

EdgePts == GridPts \cup TinyPts

InitTopLeft ==
    /\ width = 0 /\ height = 0 /\ pixels = <<>>
    /\ panicked = FALSE
    /\ calls = <<>>
    /\ NoTexture /\ NoArena /\ NoLoop

IsTopLeft ==
    /\ \E a \in EdgePts, b \in EdgePts :
         calls' = <<[kind |-> "is_top_left", a |-> a, b |-> b,
                     ab |-> is_top_left(a, b), ba |-> is_top_left(b, a)]>>
    /\ UNCHANGED <<frameVars, panicked, texture, arenaVars, loopVars>>

SpecTopLeft == InitTopLeft /\ [][IsTopLeft]_vars

LastTopLeft == Len(calls) = 1 /\ calls[1].kind = "is_top_left"

\* C26: for all points a # b exactly one of is_top_left(a, b) and
\* is_top_left(b, a) is true, the first iff dy < 0, or dy = 0 and dx > 0;
\* for a = b both are false.
C26_TopLeftAntisymmetric ==
    LastTopLeft =>
        LET c == calls[1]
            dx == c.b[1] - c.a[1]
            dy == c.b[2] - c.a[2]
        IN  IF c.a # c.b
            THEN /\ c.ab # c.ba
                 /\ c.ab <=> (dy < 0 \/ (dy = 0 /\ dx > 0))
            ELSE ~c.ab /\ ~c.ba

\* A horizontal edge that runs to the left: its reverse is the top edge.
C26_Witness ==
    /\ LastTopLeft
    /\ calls[1].b[2] = calls[1].a[2]
    /\ calls[1].b[1] < calls[1].a[1]
    /\ ~calls[1].ab
    /\ calls[1].ba

====
